---- MODULE Spec2Model ----
(***************************************************************************)
(* Model of the Lua script host of the map server:                         *)
(*   src/src/map/lua_bridge.hpp / lua_bridge.cpp   (native bridge)         *)
(*   src/src/map/lua_interpreter.hpp / .cpp        (interpreter, executor) *)
(*                                                                         *)
(* A Lua value is a record [t, s, n, code, f]: t is the Lua type name, s    *)
(* the string payload (string contents, light userdata address), n the     *)
(* integer payload, code the statement list of a Lua function and f the    *)
(* fields x, y, facing, sprite, map, name of a table, in that order (<<>>  *)
(* for a table without them).  A table with a metatable carries in s the    *)
(* name of the metamethod its metatable holds ("__tostring" or "__gc") and *)
(* in code the body of that metamethod.  A script is a sequence of         *)
(* statements [op, name, args].                                            *)
(***************************************************************************)
EXTENDS Integers, Sequences, FiniteSets, TLC

\* ------------------------------------------------------------------------
\* Bounds
\* ------------------------------------------------------------------------
\* Number of run/resume calls the driver makes in one behaviour.
MaxCalls == 3
\* Longest script made only of bridge calls that the driver runs in SpecPlain.
MaxLen == 3

\* ------------------------------------------------------------------------
\* Lua values
\* ------------------------------------------------------------------------
NULL == "NULL"

Val(t, x, k, c, f) == [t |-> t, s |-> x, n |-> k, code |-> c, f |-> f]
Nil == Val("nil", "", 0, <<>>, <<>>)
Bool(b) == Val("boolean", IF b THEN "true" ELSE "false", 0, <<>>, <<>>)
Str(x) == Val("string", x, 0, <<>>, <<>>)
Num(k) == Val("number", "", k, <<>>, <<>>)
Tbl(f) == Val("table", "", 0, <<>>, f)
Lud(p) == Val("lightuserdata", p, 0, <<>>, <<>>)
Fn(c) == Val("function", "", 0, c, <<>>)
CFn(name) == Val("function", name, 0, <<>>, <<>>)
Thr(i) == Val("thread", "", i, <<>>, <<>>)
\* setmetatable({}, {[event] = function() c end})
Meta(event, c) == Val("table", event, 0, c, <<>>)

\* lua_islightuserdata / lua_touserdata / lua_isstring / lua_tostring
lua_islightuserdata(v) == v.t = "lightuserdata"
lua_touserdata(v) == v.s
lua_isstring(v) == v.t \in {"string", "number"}
lua_tostring(v) == IF v.t = "string" THEN v.s ELSE ToString(v.n)

\* ------------------------------------------------------------------------
\* Script statements
\* ------------------------------------------------------------------------
Stmt(op, name, args) == [op |-> op, name |-> name, args |-> args]
Mes(args) == Stmt("mes", "", args)
Next_ == Stmt("next", "", <<>>)
Close == Stmt("close", "", <<>>)
Yield == Stmt("yield", "", <<>>)
SetGlobal(name, v) == Stmt("setglobal", name, <<v>>)
Error(v) == Stmt("error", "", <<v>>)
Return(vs) == Stmt("return", "", vs)

SD_LUA_VARIABLE == "__map_session_data__"
ND_LUA_VARIABLE == "__npc_data__"

\* The global names the scripts read or write: those run by an executor, and
\* those whose metadata the interpreter extracts.
ExecutorGlobals ==
    {"__executor__", SD_LUA_VARIABLE, ND_LUA_VARIABLE, "mes", "next", "close",
     "guardian"}
InterpreterGlobals == {"script", "name", "x", "y", "mes"}

\* luaL_newstate (and luaL_openlibs): none of the names is bound.
luaL_newstate(names) == [name \in names |-> Nil]


\* ------------------------------------------------------------------------
\* State
\* ------------------------------------------------------------------------
Executors == {"A", "B"}
Sessions == {"s1", "s2"}
Npcs == {"n1", "n2"}

VARIABLES
    sd,        \* executor::impl::sd, per executor
    nd,        \* executor::impl::nd, per executor
    G,         \* global table of each executor's lua_State
    L,         \* stack of each executor's main lua_State
    threads,   \* coroutines created in each executor's lua_State, in creation order
    thread,    \* executor::impl::thread: index into threads, 0 is nullptr
    ret,       \* what the last driver call on each executor returned
    net,       \* clif_* notifications sent while each executor's script ran
    warns,     \* ShowWarning lines printed while each executor's script ran
    trace,     \* history: one entry per bridge call made by each executor's scripts
    live,      \* the executors that have not been destroyed
    crashed,   \* the process has been killed
    ncalls,    \* history: number of run/resume calls made so far
    ilua,      \* global table of the interpreter's lua_State
    ifile,     \* history: the file of the last extract_metadata call
    ires,      \* what the last extract_metadata call returned
    nextract   \* history: number of extract_metadata calls made so far

exec_vars == <<sd, nd, G, L, threads, thread, ret, net, warns, trace, live, ncalls>>
interp_vars == <<ilua, ifile, ires, nextract>>
vars == <<exec_vars, crashed, interp_vars>>

\* ------------------------------------------------------------------------
\* lua_bridge.hpp: lua_helpers
\* ------------------------------------------------------------------------
\* As extract_user_data, were the context kept in one place for the whole
\* process instead of in the globals of the calling VM.
extract_user_data_shared(glob, name) ==
    LET v == G["A"][name]
    IN IF ~lua_islightuserdata(v) THEN NULL ELSE lua_touserdata(v)

\* As extract_user_data, were the context taken once, at construction, and
\* kept in the executor the global __executor__ points to.
extract_user_data_cached(glob, name) ==
    LET self == lua_touserdata(glob["__executor__"])
    IN IF name = SD_LUA_VARIABLE THEN sd[self] ELSE nd[self]

extract_user_data(glob, name) ==
    LET v == glob[name]
    IN IF ~lua_islightuserdata(v) THEN NULL ELSE lua_touserdata(v)

extract_session_data(glob) == extract_user_data(glob, SD_LUA_VARIABLE)
extract_npc_data(glob) == extract_user_data(glob, ND_LUA_VARIABLE)

\* ------------------------------------------------------------------------
\* lua_bridge.cpp
\* ------------------------------------------------------------------------
script_context(glob, args) ==
    [args |-> Len(args),
     sd |-> extract_session_data(glob),
     nd |-> extract_npc_data(glob)]

is_valid(context) == context.sd # NULL /\ context.nd # NULL

\* The three notification primitives of the network layer (clif.hpp); the
\* npc is named by nd->bl.id.
clif_scriptmes(s, id, msg) == [fn |-> "clif_scriptmes", sd |-> s, id |-> id, msg |-> msg]
clif_scriptnext(s, id) == [fn |-> "clif_scriptnext", sd |-> s, id |-> id, msg |-> ""]
clif_scriptclose(s, id) == [fn |-> "clif_scriptclose", sd |-> s, id |-> id, msg |-> ""]

\* What a bridge callable did: notifications sent, warnings printed, and how it
\* left the VM ("return": plain return 0, "yield": lua_yield, "error": lua_error).
Did(sent, warned, how) == [sent |-> sent, warned |-> warned, how |-> how]

mes(glob, args) ==
    LET context == script_context(glob, args)
    IN IF ~is_valid(context)
       THEN Did(<<>>, <<"[lua::mes]: Trying to call with no proper context.">>, "return")
       ELSE IF context.args < 1
       THEN Did(<<>>, <<"[lua::mes]: Trying to call with no parameters.">>, "return")
       ELSE IF ~lua_isstring(args[1])
       THEN Did(<<>>, <<"[lua::mes]: First parameter must be a string.">>, "return")
       ELSE Did(<<clif_scriptmes(context.sd, context.nd, lua_tostring(args[1]))>>,
                <<>>, "return")

\* As next, without the lua_yield.
next_noyield(glob, args) ==
    LET context == script_context(glob, args)
    IN IF ~is_valid(context)
       THEN Did(<<>>, <<>>, "return")
       ELSE Did(<<clif_scriptnext(context.sd, context.nd)>>, <<>>, "return")

\* As next, yielding before the context is validated.
next_unchecked(glob, args) ==
    LET context == script_context(glob, args)
    IN IF ~is_valid(context)
       THEN Did(<<>>, <<>>, "yield")
       ELSE Did(<<clif_scriptnext(context.sd, context.nd)>>, <<>>, "yield")

next(glob, args) ==
    LET context == script_context(glob, args)
    IN IF ~is_valid(context)
       THEN Did(<<>>, <<>>, "return")
       ELSE Did(<<clif_scriptnext(context.sd, context.nd)>>, <<>>, "yield")

close(glob, args) ==
    LET context == script_context(glob, args)
    IN IF ~is_valid(context)
       THEN Did(<<>>, <<>>, "return")
       ELSE Did(<<clif_scriptclose(context.sd, context.nd)>>, <<>>, "return")

\* The callables of namespace lua_bridge, by name.
BridgeNames == {"mes", "next", "close"}

lua_bridge(name, glob, args) ==
    CASE name = "mes" -> mes(glob, args)
      [] name = "next" -> next(glob, args)
      [] name = "close" -> close(glob, args)

\* ------------------------------------------------------------------------
\* The Lua VM, as far as run/resume use it
\* ------------------------------------------------------------------------
LUA_OK == "LUA_OK"
LUA_YIELD == "LUA_YIELD"
LUA_ERRRUN == "LUA_ERRRUN"

\* One bridge call as the history records it.
Called(c, s, r) ==
    [fn |-> s.op, valid |-> is_valid(script_context(c.glob, s.args)),
     nargs |-> Len(s.args), arg |-> IF s.args = <<>> THEN "none" ELSE s.args[1].t,
     sent |-> Len(r.sent), warned |-> Len(r.warned),
     how |-> r.how, th |-> c.th, act |-> c.act, pc |-> c.pc]

\* Runs the Lua function c.code from statement c.pc until it returns, yields
\* or raises.  pc is left after a statement that returned or yielded and on a
\* statement that raised.
RECURSIVE luaV_execute(_)
luaV_execute(c) ==
    IF c.pc > Len(c.code)
    THEN [c EXCEPT !.status = LUA_OK, !.rv = <<>>]
    ELSE LET s == c.code[c.pc]
         IN CASE s.op \in BridgeNames /\ c.glob[s.op] \notin {CFn(b) : b \in BridgeNames} ->
                   \* the global of that name is not one of the registered functions
                   [c EXCEPT !.status = LUA_ERRRUN,
                             !.rv = <<Str("attempt to call a " \o c.glob[s.op].t \o " value")>>]
              [] s.op \in BridgeNames /\ c.glob[s.op] \in {CFn(b) : b \in BridgeNames} ->
                   LET r == lua_bridge(c.glob[s.op].s, c.glob, s.args)
                       c1 == [c EXCEPT !.sent = @ \o r.sent,
                                       !.warned = @ \o r.warned,
                                       !.trace = Append(@, Called(c, s, r))]
                   IN CASE r.how = "yield" ->
                             [c1 EXCEPT !.status = LUA_YIELD, !.pc = @ + 1]
                        [] r.how = "error" ->
                             [c1 EXCEPT !.status = LUA_ERRRUN, !.rv = <<Nil>>]
                        [] OTHER -> luaV_execute([c1 EXCEPT !.pc = @ + 1])
              [] s.op = "yield" ->
                   \* coroutine.yield() of the standard library (luaL_openlibs)
                   [c EXCEPT !.status = LUA_YIELD, !.pc = @ + 1]
              [] s.op = "setglobal" ->
                   luaV_execute([c EXCEPT !.glob[s.name] = s.args[1], !.pc = @ + 1])
              [] s.op = "error" ->
                   [c EXCEPT !.status = LUA_ERRRUN, !.rv = <<s.args[1]>>]
              [] s.op = "return" ->
                   [c EXCEPT !.status = LUA_OK, !.rv = s.args, !.pc = @ + 1]

\* A coroutine: L->status, the values on its stack below the running function
\* (or, when nothing runs, all of them), the function it runs and where it
\* stands in it; act counts the functions it has started.
Coroutine(stk) ==
    [status |-> LUA_OK, stk |-> stk, code |-> <<>>, pc |-> 0, act |-> 0]

\* What lua_resume leaves: the coroutine, the globals, what the script sent,
\* printed and called, and lua_resume's return value.
Resumed(t, glob, sent, warned, tr, status) ==
    [t |-> t, glob |-> glob, sent |-> sent, warned |-> warned, trace |-> tr,
     status |-> status]

resume_error(t, glob, msg) ==
    Resumed([t EXCEPT !.stk = Append(@, Str(msg))], glob, <<>>, <<>>, <<>>, LUA_ERRRUN)

\* The coroutine after the function it ran returned, yielded or raised.
Unwound(t, below, c) ==
    LET stk == CASE c.status = LUA_OK -> below \o c.rv
                 [] c.status = LUA_YIELD -> below
                 [] OTHER -> below \o <<Fn(c.code)>> \o c.rv
    IN Resumed([status |-> c.status, stk |-> stk, code |-> c.code, pc |-> c.pc,
                act |-> c.act],
               c.glob, c.sent, c.warned, c.trace, c.status)

Machine(code, pc, glob, th, act) ==
    [code |-> code, pc |-> pc, glob |-> glob, sent |-> <<>>, warned |-> <<>>,
     trace |-> <<>>, status |-> LUA_OK, rv |-> <<>>, th |-> th, act |-> act]

\* lua_resume(t, nullptr, 0, &results) on coroutine number th
lua_resume(t, th, glob) ==
    CASE t.status = LUA_OK /\ Len(t.stk) = 0 ->
           resume_error(t, glob, "cannot resume dead coroutine")
      [] t.status = LUA_OK /\ Len(t.stk) > 0 ->
           LET f == t.stk[Len(t.stk)]
               below == SubSeq(t.stk, 1, Len(t.stk) - 1)
           IN IF f.t = "function"
              THEN Unwound(t, below,
                           luaV_execute(Machine(f.code, 1, glob, th, t.act + 1)))
              ELSE Resumed([t EXCEPT !.status = LUA_ERRRUN,
                                     !.stk = Append(@, Str("attempt to call a " \o f.t \o " value"))],
                           glob, <<>>, <<>>, <<>>, LUA_ERRRUN)
      [] t.status = LUA_YIELD ->
           Unwound(t, t.stk, luaV_execute(Machine(t.code, t.pc, glob, th, t.act)))
      [] OTHER ->
           resume_error(t, glob, "cannot resume dead coroutine")

\* A buffer handed to run: bytes of one of three kinds.  "binary" is what
\* lua_dump wrote for a function, "text" is Lua source, "garbage" is neither.
Buffer(kind, code) == [kind |-> kind, code |-> code]

\* luaL_loadbuffer(lua, code, size, "b"): the value it pushes.  The fourth
\* argument is the chunk name; the mode is left to the default, which takes
\* binary and text chunks alike.
luaL_loadbuffer(buf) ==
    CASE buf.kind = "binary" -> Fn(buf.code)
      [] buf.kind = "text" -> Fn(buf.code)
      [] OTHER -> Str("[string \"b\"]:1: syntax error")

\* ------------------------------------------------------------------------
\* Scripts the driver is given
\* ------------------------------------------------------------------------
\* The end-to-end dialogue.
Guard == <<Mes(<<Str("Halt!")>>), Next_, Mes(<<Str("Move along.")>>), Close>>
\* mes() without arguments, mes with first arguments that are not strings,
\* then a proper line.
Malformed == <<Mes(<<>>), Mes(<<Num(5)>>), Mes(<<Bool(TRUE)>>), Mes(<<Nil>>),
               Mes(<<Tbl(<<>>)>>), Mes(<<Str("after")>>), Close>>
\* The script drops its session binding, then calls all three callables.
Unbind == <<Mes(<<Str("one")>>), SetGlobal(SD_LUA_VARIABLE, Nil),
            Mes(<<Str("two")>>), Next_, Close>>
\* The script overwrites its npc binding with a number.
Rebind == <<SetGlobal(ND_LUA_VARIABLE, Num(7)), Next_, Close, Mes(<<Str("three")>>)>>
\* coroutine.yield() straight from the script, which then returns a function.
Yielder == <<Mes(<<Str("wait")>>), Yield, Return(<<Fn(<<Close>>)>>)>>
\* error("boom") in the middle of the dialogue.
Thrower == <<Mes(<<Str("oops")>>), Error(Str("boom")), Close>>

Scripts == {Guard, Malformed, Unbind, Rebind, Yielder, Thrower}

\* lua_dump of a script function, as fetch_metadata stores it.
lua_dump(code) == Buffer("binary", code)

Buffers ==
    {lua_dump(c) : c \in Scripts} \cup {Buffer("garbage", <<>>)}

\* ------------------------------------------------------------------------
\* interpreter
\* ------------------------------------------------------------------------
\* Number of extract_metadata calls made on the interpreter in one behaviour.
MaxExtract == 2

Fields == <<"x", "y", "facing", "sprite", "map", "name">>
FieldNo(name) == CHOOSE i \in 1..Len(Fields) : Fields[i] = name

\* Strings that Lua converts to a number, and the number.
Numerals == {"12"}
lua_stringtonumber(x) == CASE x = "12" -> 12

lua_istable(v) == v.t = "table"
lua_isfunction(v) == v.t = "function"
lua_isnil(v) == v.t = "nil"
lua_isnumber(v) == v.t = "number" \/ (v.t = "string" /\ v.s \in Numerals)
lua_tointeger(v) ==
    CASE v.t = "number" -> v.n
      [] v.t = "string" /\ v.s \in Numerals -> lua_stringtonumber(v.s)
      [] OTHER -> 0

\* lua_getfield(lua, -1, name): the value pushed, or a raised error when the
\* value on top cannot be indexed.  A string is indexed through the string
\* library, which has none of the metadata names.
Indexable(v) == v.t \in {"table", "string"}
lua_getfield(v, name) ==
    IF v.t = "table" /\ v.f # <<>> THEN v.f[FieldNo(name)] ELSE Nil

\* A lua_State stack and what a fetch returned; raised: an error was raised
\* outside any protected call (the panic handler runs and the process aborts).
Fetched(stk, val, raised) == [stk |-> stk, val |-> val, raised |-> raised]
Top(stk) == stk[Len(stk)]
Pop(stk) == SubSeq(stk, 1, Len(stk) - 1)

\* interpreter::impl::fetch_number
fetch_number(stk, name) ==
    IF ~Indexable(Top(stk))
    THEN Fetched(stk, 0, TRUE)
    ELSE LET pushed == Append(stk, lua_getfield(Top(stk), name))
         IN IF ~lua_isnumber(Top(pushed))
            THEN Fetched(pushed, 0, FALSE)
            ELSE Fetched(Pop(pushed), lua_tointeger(Top(pushed)), FALSE)

\* interpreter::impl::fetch_string
fetch_string(stk, name) ==
    IF ~Indexable(Top(stk))
    THEN Fetched(stk, "", TRUE)
    ELSE LET pushed == Append(stk, lua_getfield(Top(stk), name))
         IN IF ~lua_isstring(Top(pushed))
            THEN Fetched(pushed, "", FALSE)
            ELSE Fetched(Pop(pushed), lua_tostring(Top(pushed)), FALSE)

\* script_metadata (path is never assigned); code = NoCode is the null pointer.
NoCode == Buffer("none", <<>>)
Metadata(x, y, facing, sprite, map, name, code) ==
    [x |-> x, y |-> y, facing |-> facing, sprite |-> sprite, map |-> map,
     name |-> name, code |-> code]
NoMetadata == Metadata(0, 0, 0, 0, "", "", NoCode)

\* What extract_metadata gave its caller: "metadata", "nullptr", "abort" when
\* the process was aborted inside the call, "none" before the first call.
Result(kind, md) == [kind |-> kind, md |-> md]
NoResult == Result("none", NoMetadata)

\* interpreter::impl::fetch_metadata with the stack stk and the globals glob
fetch_metadata(stk, glob) ==
    IF ~lua_istable(Top(stk))
    THEN Result("nullptr", NoMetadata)
    ELSE LET x == fetch_number(stk, "x")
             y == fetch_number(x.stk, "y")
             facing == fetch_number(y.stk, "facing")
             sprite == fetch_number(facing.stk, "sprite")
             map == fetch_string(sprite.stk, "map")
             name == fetch_string(map.stk, "name")
             script == glob["script"]
             code == IF ~lua_isfunction(script) THEN NoCode ELSE lua_dump(script.code)
         IN IF x.raised \/ y.raised \/ facing.raised \/ sprite.raised
                \/ map.raised \/ name.raised
            THEN Result("abort", NoMetadata)
            ELSE Result("metadata",
                        Metadata(x.val, y.val, facing.val, sprite.val, map.val,
                                 name.val, code))

\* The one result taken of a call that returned the values rv.
Adjusted(rv) == IF rv = <<>> THEN Nil ELSE rv[1]

\* luaL_getmetafield(lua, 1, "__tostring") finds a metamethod
luaL_getmetafield(v) == v.t = "table" /\ v.s = "__tostring"

\* luaL_callmeta(lua, 1, "__tostring") on a value that has the metamethod:
\* what the metamethod returned, a value of any type.
luaL_callmeta(v, glob) == Adjusted(luaV_execute(Machine(v.code, 1, glob, 0, 0)).rv)

\* lua_error_handler: the value it leaves on top for the error value v
lua_error_handler(v, glob) ==
    IF lua_isstring(v)
    THEN Str(lua_tostring(v) \o "\nstack traceback:")
    ELSE IF ~lua_isnil(v)
    THEN IF ~luaL_getmetafield(v)
         THEN Str("(no error message)")
         ELSE luaL_callmeta(v, glob)
    ELSE v

\* A source file: "unreadable" (it cannot be opened: the stream is empty),
\* "syntax" (lua_load fails) or "text" with its top-level statements.
File(kind, body) == [kind |-> kind, body |-> body]
NoFile == File("none", <<>>)

\* lua_load(..., "t") and lua_pcall(lua, 0, 1, 1) on the file: the globals the
\* chunk leaves, the value left on top and the error message; null: the
\* const char* assigned to error_message is a null pointer (lua_tostring of a
\* value that is neither a string nor a number).
Loaded(glob, top, msg, null) ==
    [glob |-> glob, top |-> top, error_message |-> msg, null |-> null]

\* lua_pcall failed and the handler left h: what error_message is assigned.
Failed(glob, h) ==
    IF lua_isnil(h)
    THEN Loaded(glob, h, "", FALSE)
    ELSE IF lua_isstring(h)
    THEN Loaded(glob, h, lua_tostring(h), FALSE)
    ELSE Loaded(glob, h, "", TRUE)

\* lua_pcall(lua, 0, 1, 1), the chunk having run as c tells
lua_pcall(c) ==
    IF c.status = LUA_OK
    THEN Loaded(c.glob, Adjusted(c.rv), "", FALSE)
    ELSE Failed(c.glob,
                lua_error_handler(
                    IF c.status = LUA_YIELD
                    THEN Str("attempt to yield from outside a coroutine")
                    ELSE c.rv[1],
                    c.glob))

lua_load_pcall(file, glob) ==
    IF file.kind = "syntax"
    THEN Loaded(glob, Nil, "syntax error near <eof>", FALSE)
    ELSE lua_pcall(luaV_execute(
             Machine(IF file.kind = "unreadable" THEN <<>> ELSE file.body, 1, glob, 0, 0)))

\* What assigning a null const char* to the std::string error_message does:
\* the process is killed in strlen, or the pointer is read as an empty string.
NullString == {"killed", "empty"}

\* The body of interpreter::extract_metadata on a lua_State with the globals
\* glob: the globals it leaves and what it returns; ub is what the build makes
\* of the null pointer, where there is one.
Validated(l, ub) ==
    [glob |-> l.glob,
     res |-> IF l.null /\ ub = "killed"
             THEN Result("abort", NoMetadata)
             ELSE IF l.error_message # ""
             THEN Result("nullptr", NoMetadata)
             ELSE fetch_metadata(<<CFn("lua_error_handler"), l.top>>, l.glob)]

Extraction(file, glob, ub) == Validated(lua_load_pcall(file, glob), ub)

\* interpreter::extract_metadata(path), file being what is at path
extract_metadata(file) ==
    \E r \in {Extraction(file, ilua, ub) : ub \in NullString} :
        /\ ~crashed
        /\ ilua' = r.glob
        /\ ifile' = file
        /\ ires' = r.res
        /\ crashed' = (r.res.kind = "abort")
        /\ UNCHANGED <<sd, nd, G, L, threads, thread, ret, net, warns, trace, live,
                       ncalls>>

\* ------------------------------------------------------------------------
\* executor
\* ------------------------------------------------------------------------
\* executor::impl::register_functions: lua_register(lua, "mes", lua_bridge::mes) ...
register_functions(glob) ==
    [name \in DOMAIN glob |-> IF name \in BridgeNames THEN CFn(name) ELSE glob[name]]

\* executor::impl::register_globals
register_globals(glob, self, s, n) ==
    [name \in DOMAIN glob |->
        CASE name = "__executor__" -> Lud(self)
          [] name = SD_LUA_VARIABLE -> Lud(s)
          [] name = ND_LUA_VARIABLE -> Lud(n)
          [] OTHER -> glob[name]]

\* executor::impl::impl: luaL_newstate, luaL_openlibs, register_functions,
\* register_globals
executor_impl(self, s, n) ==
    register_globals(register_functions(luaL_newstate(ExecutorGlobals)), self, s, n)

\* executor::executor(sd, nd) for every executor: fresh lua_State, empty stack,
\* thread = nullptr.  Executor A talks for session s1 and npc n1; executor B
\* for another session and the same or another npc, or is handed a null pointer.
Init ==
    /\ sd \in [Executors -> Sessions \cup {NULL}]
    /\ nd \in [Executors -> Npcs \cup {NULL}]
    /\ sd["A"] = "s1" /\ nd["A"] = "n1"
    /\ <<sd["B"], nd["B"]>> \in {<<"s2", "n1">>, <<"s2", "n2">>, <<NULL, "n1">>, <<"s2", NULL>>}
    /\ G = [e \in Executors |-> executor_impl(e, sd[e], nd[e])]
    /\ L = [e \in Executors |-> <<>>]
    /\ threads = [e \in Executors |-> <<>>]
    /\ thread = [e \in Executors |-> 0]
    /\ ret = [e \in Executors |-> "none"]
    /\ net = [e \in Executors |-> <<>>]
    /\ warns = [e \in Executors |-> <<>>]
    /\ trace = [e \in Executors |-> <<>>]
    /\ live = Executors
    /\ crashed = FALSE
    /\ ncalls = 0
    /\ ilua = luaL_newstate(InterpreterGlobals)
    /\ ifile = NoFile
    /\ ires = NoResult
    /\ nextract = 0

\* lua_resume(self->thread, nullptr, 0, &results) with the coroutines ts
Resume(e, ts, i) ==
    LET r == lua_resume(ts[i], i, G[e])
    IN /\ threads' = [threads EXCEPT ![e] = [ts EXCEPT ![i] = r.t]]
       /\ G' = [G EXCEPT ![e] = r.glob]
       /\ net' = [net EXCEPT ![e] = @ \o r.sent]
       /\ warns' = [warns EXCEPT ![e] = @ \o r.warned]
       /\ trace' = [trace EXCEPT ![e] = @ \o r.trace]
       /\ crashed' = crashed

\* executor::resume().  With thread == nullptr lua_resume dereferences a null
\* lua_State: the process is killed, or the read happens to go through and
\* nothing is done.
resume(e) ==
    /\ ~crashed
    /\ e \in live
    /\ IF thread[e] = 0
       THEN /\ crashed' \in BOOLEAN
            /\ UNCHANGED <<G, threads, net, warns, trace>>
       ELSE Resume(e, threads[e], thread[e])
    /\ ret' = [ret EXCEPT ![e] = "void"]
    /\ UNCHANGED <<sd, nd, L, thread, live, interp_vars>>

\* As run, were the result of luaL_loadbuffer looked at: a buffer that does
\* not load leaves its message on the stack, no task is made and the caller
\* is told.
run_checked(e, buf) ==
    LET f == luaL_loadbuffer(buf)
        i == Len(threads[e]) + 1
    IN IF f.t # "function"
       THEN /\ ~crashed
            /\ e \in live
            /\ L' = [L EXCEPT ![e] = Append(@, f)]
            /\ ret' = [ret EXCEPT ![e] = "false"]
            /\ UNCHANGED <<sd, nd, G, threads, thread, net, warns, trace, live,
                           crashed, interp_vars>>
       ELSE /\ ~crashed
            /\ e \in live
            /\ L' = [L EXCEPT ![e] = @ \o <<f, Thr(i)>>]
            /\ thread' = [thread EXCEPT ![e] = i]
            /\ Resume(e, Append(threads[e], Coroutine(<<f>>)), i)
            /\ ret' = [ret EXCEPT ![e] = "true"]
            /\ UNCHANGED <<sd, nd, live, interp_vars>>

\* executor::run(code, size)
run(e, buf) ==
    LET f == luaL_loadbuffer(buf)
        i == Len(threads[e]) + 1
    IN /\ ~crashed
       /\ e \in live
       /\ L' = [L EXCEPT ![e] = @ \o <<f, Thr(i)>>]
       /\ thread' = [thread EXCEPT ![e] = i]
       /\ Resume(e, Append(threads[e], Coroutine(<<f>>)), i)
       /\ ret' = [ret EXCEPT ![e] = "true"]
       /\ UNCHANGED <<sd, nd, live, interp_vars>>

\* lua_close, as far as it runs script code: the __gc metamethods of the
\* objects with a finalizer are called in the main lua_State, each in
\* protected mode, so that what one raises is dropped; a lua_yield in one
\* raises, the main lua_State not being a coroutine.  The objects are those
\* the globals in names hold.  Suspended coroutines are freed, not resumed.
RECURSIVE callallpendingfinalizers(_, _)
callallpendingfinalizers(names, c) ==
    IF names = {}
    THEN c
    ELSE LET name == CHOOSE n \in names : TRUE
             v == c.glob[name]
             r == IF v.t = "table" /\ v.s = "__gc"
                  THEN luaV_execute(Machine(v.code, 1, c.glob, 0, 0))
                  ELSE Machine(<<>>, 1, c.glob, 0, 0)
         IN callallpendingfinalizers(
                names \ {name},
                [c EXCEPT !.glob = r.glob, !.sent = @ \o r.sent,
                          !.warned = @ \o r.warned, !.trace = @ \o r.trace])

lua_close(glob) ==
    callallpendingfinalizers(DOMAIN glob, Machine(<<>>, 1, glob, 0, 0))

\* executor::~executor: the unique_ptr destroys executor::impl, whose
\* destructor calls lua_close; the lua_State, its stack and its coroutines
\* are freed.
destroy(e) ==
    LET c == lua_close(G[e])
    IN /\ ~crashed
       /\ e \in live
       /\ live' = live \ {e}
       /\ net' = [net EXCEPT ![e] = @ \o c.sent]
       /\ warns' = [warns EXCEPT ![e] = @ \o c.warned]
       /\ trace' = [trace EXCEPT ![e] = @ \o c.trace]
       /\ G' = [G EXCEPT ![e] = luaL_newstate(ExecutorGlobals)]
       /\ L' = [L EXCEPT ![e] = <<>>]
       /\ threads' = [threads EXCEPT ![e] = <<>>]
       /\ thread' = [thread EXCEPT ![e] = 0]
       /\ UNCHANGED <<sd, nd, ret, crashed, ncalls, interp_vars>>

\* The driver calls run and resume in any order, on any executor.
Run(e, buf) == ncalls < MaxCalls /\ run(e, buf) /\ ncalls' = ncalls + 1
Continue(e) == ncalls < MaxCalls /\ resume(e) /\ ncalls' = ncalls + 1

Next ==
    \/ \E e \in Executors, buf \in Buffers : Run(e, buf)
    \/ \E e \in Executors : Continue(e)

Spec == Init /\ [][Next]_vars

\* ------------------------------------------------------------------------
\* A driver that keeps to the contract: one dialogue at a time, run once, then
\* resume only while the task is suspended; the scripts are all sequences of
\* bridge calls up to MaxLen statements, and the end-to-end dialogue.
\* ------------------------------------------------------------------------
PlainStmt(k, i) ==
    CASE k = "mes" -> Mes(<<Str("line " \o ToString(i))>>)
      [] k = "next" -> Next_
      [] k = "close" -> Close

PlainScripts ==
    {Guard} \cup
    UNION {{[i \in 1..n |-> PlainStmt(f[i], i)] : f \in [1..n -> {"mes", "next", "close"}]} :
           n \in 0..MaxLen}

Current(e) == threads[e][thread[e]]
Suspended(e) == thread[e] # 0 /\ Current(e).status = LUA_YIELD
Completed(e) == thread[e] # 0 /\ Current(e).status = LUA_OK
Faulted(e) == thread[e] # 0 /\ Current(e).status = LUA_ERRRUN

Start(e, c) ==
    /\ \A o \in Executors : thread[o] = 0
    /\ run(e, lua_dump(c))
    /\ ncalls' = ncalls + 1

Advance(e) ==
    /\ Suspended(e)
    /\ resume(e)
    /\ ncalls' = ncalls + 1

NextPlain ==
    \/ \E e \in Executors, c \in PlainScripts : Start(e, c)
    \/ \E e \in Executors : Advance(e)

SpecPlain == Init /\ [][NextPlain]_vars

\* ------------------------------------------------------------------------
\* A driver that gives every executor one program, resumes it while it is
\* suspended and destroys the executor at any time.  The programs are compiled
\* bytes, source text, and bytes that are neither.
\* ------------------------------------------------------------------------
\* The dialogue, with an object whose finalizer speaks kept in a global:
\* guardian = setmetatable({}, {__gc = function() mes("bye") next() end})
Guardian ==
    <<SetGlobal("guardian", Meta("__gc", <<Mes(<<Str("bye")>>), Next_>>))>> \o Guard
\* A script handed to run as source text.
Source == <<Mes(<<Str("from source")>>), Next_, Close>>

LifeBuffers ==
    {lua_dump(Guard), lua_dump(Guardian), Buffer("text", Source),
     Buffer("garbage", <<>>)}

Load(e, buf) ==
    /\ thread[e] = 0
    /\ run(e, buf)
    /\ ncalls' = ncalls + 1

Proceed(e) ==
    /\ Suspended(e)
    /\ resume(e)
    /\ ncalls' = ncalls + 1

Discard(e) ==
    /\ e \in live
    /\ destroy(e)

NextLife ==
    \/ \E e \in Executors, buf \in LifeBuffers : Load(e, buf)
    \/ \E e \in Executors : Proceed(e)
    \/ \E e \in Executors : Discard(e)

SpecLife == Init /\ [][NextLife]_vars

\* ------------------------------------------------------------------------
\* The source files the interpreter is given
\* ------------------------------------------------------------------------
FieldSet == {Fields[i] : i \in 1..Len(Fields)}

\* The values a script gives the six fields.
Given == <<Num(150), Num(200), Num(4), Num(45), Str("prontera"), Str("Guard")>>

\* The table a script returns when it leaves the fields in unset out.
TableOf(unset) ==
    LET F(i) == IF Fields[i] \in unset THEN Nil ELSE Given[i]
    IN Tbl(<<F(1), F(2), F(3), F(4), F(5), F(6)>>)

DefScript == SetGlobal("script", Fn(Guard))

\* return { ... }, after function script() ... end when withScript
Returning(unset, withScript) ==
    File("text", (IF withScript THEN <<DefScript>> ELSE <<>>) \o <<Return(<<TableOf(unset)>>)>>)

\* The file format of the documentation: the fields are assigned as globals.
GlobalStyle ==
    File("text", <<SetGlobal("name", Str("Guard")), SetGlobal("x", Num(150)),
                   SetGlobal("y", Num(200)), DefScript>>)

OddFiles ==
    {\* x = "12", map = 5
     File("text", <<Return(<<Tbl(<<Str("12"), Num(200), Num(4), Num(45), Num(5), Str("Guard")>>)>>)>>),
     \* x = "abc"
     File("text", <<Return(<<Tbl(<<Str("abc"), Num(200), Num(4), Num(45), Str("prontera"), Str("Guard")>>)>>)>>),
     \* x = {}
     File("text", <<Return(<<Tbl(<<Tbl(<<>>), Num(200), Num(4), Num(45), Str("prontera"), Str("Guard")>>)>>)>>),
     \* name = true
     File("text", <<Return(<<Tbl(<<Num(150), Num(200), Num(4), Num(45), Str("prontera"), Bool(TRUE)>>)>>)>>),
     \* script = 5
     File("text", <<SetGlobal("script", Num(5)), Return(<<TableOf({})>>)>>),
     \* return 5, and no return at all
     File("text", <<DefScript, Return(<<Num(5)>>)>>),
     File("text", <<DefScript>>),
     \* mes("hi") at top level
     File("text", <<Mes(<<Str("hi")>>), Return(<<TableOf({})>>)>>)}

FailingFiles ==
    {File("unreadable", <<>>), File("syntax", <<>>),
     File("text", <<DefScript, Error(Str("boom"))>>),
     File("text", <<Error(Nil)>>),
     File("text", <<Error(Tbl(<<>>))>>),
     \* error(setmetatable({}, {__tostring = function() return "bad" end}))
     File("text", <<Error(Meta("__tostring", <<Return(<<Str("bad")>>)>>))>>),
     \* ... function() return {x = 150, ...} end
     File("text", <<Error(Meta("__tostring", <<Return(<<TableOf({})>>)>>))>>)}

Files ==
    {Returning(u, w) : u \in SUBSET FieldSet, w \in BOOLEAN}
        \cup {GlobalStyle} \cup OddFiles \cup FailingFiles

\* The server extracts the metadata of one file after another with the same
\* interpreter.
Extract(file) ==
    /\ nextract < MaxExtract
    /\ extract_metadata(file)
    /\ nextract' = nextract + 1

NextExtract == \E file \in Files : Extract(file)

SpecExtract == Init /\ [][NextExtract]_vars

\* ------------------------------------------------------------------------
\* Properties
\* ------------------------------------------------------------------------
Valid(e) == sd[e] # NULL /\ nd[e] # NULL

\* The notification the network layer is owed for one bridge call of executor e.
Owed(e, s) ==
    CASE s.op = "mes" -> [fn |-> "clif_scriptmes", sd |-> sd[e], id |-> nd[e], msg |-> s.args[1].s]
      [] s.op = "next" -> [fn |-> "clif_scriptnext", sd |-> sd[e], id |-> nd[e], msg |-> ""]
      [] s.op = "close" -> [fn |-> "clif_scriptclose", sd |-> sd[e], id |-> nd[e], msg |-> ""]

Advances(code, upto) == Cardinality({i \in 1..upto : code[i].op = "next"})

\* The script run handed to the first task of executor e.
ScriptOf(e) == L[e][1].code

\* C1: under a driver that runs a script of bridge calls once and resumes it
\* while it is suspended, with a valid session and npc, the notifications sent
\* so far are exactly the calls of the script up to where the task stands, in
\* program order; every run/resume call returned right after the advance of
\* the next next() (task suspended) or at the end of the script (task
\* completed), never with a fault; and the end-to-end dialogue gives
\* [Halt!, advance] on run and [Move along., ended] on the one resume.
C1_NotificationsInProgramOrder ==
    \A e \in Executors :
        (Valid(e) /\ thread[e] # 0) =>
            LET t == Current(e)
                code == ScriptOf(e)
                done == t.pc - 1
            IN /\ thread[e] = 1 /\ t.code = code
               /\ done \in 0..Len(code)
               /\ net[e] = [i \in 1..done |-> Owed(e, code[i])]
               /\ t.status \in {LUA_YIELD, LUA_OK}
               /\ t.status = LUA_YIELD =>
                     /\ done >= 1 /\ code[done].op = "next"
                     /\ Advances(code, done) = ncalls
               /\ t.status = LUA_OK =>
                     /\ done = Len(code)
                     /\ Advances(code, done) = ncalls - 1
               /\ ret[e] = (IF ncalls = 1 THEN "true" ELSE "void")
               /\ (code = Guard /\ ncalls = 1) =>
                     /\ Suspended(e)
                     /\ net[e] = <<clif_scriptmes(sd[e], nd[e], "Halt!"),
                                   clif_scriptnext(sd[e], nd[e])>>
               /\ (code = Guard /\ ncalls = 2) =>
                     /\ Completed(e)
                     /\ net[e] = <<clif_scriptmes(sd[e], nd[e], "Halt!"),
                                   clif_scriptnext(sd[e], nd[e]),
                                   clif_scriptmes(sd[e], nd[e], "Move along."),
                                   clif_scriptclose(sd[e], nd[e])>>

\* The end-to-end dialogue has been run and resumed to its end.
C1_Witness ==
    \E e \in Executors :
        /\ Valid(e) /\ thread[e] # 0 /\ ScriptOf(e) = Guard
        /\ Completed(e) /\ ncalls = 2 /\ Len(net[e]) = 4

\* C2: a task is suspended only by a call of the bridge callable next: every
\* suspended coroutine stands right after a next statement.
C2_SuspendedOnlyByNext ==
    \A e \in Executors :
        \A i \in 1..Len(threads[e]) :
            threads[e][i].status = LUA_YIELD =>
                /\ threads[e][i].pc >= 2
                /\ threads[e][i].code[threads[e][i].pc - 1].op = "next"

InFlight(e) == {i \in 1..Len(threads[e]) : threads[e][i].status = LUA_YIELD}

\* C4: an executor holds at most one task that is neither completed nor
\* faulted, also after a second run while the first task is suspended.
C4_AtMostOneTask == \A e \in Executors : Cardinality(InFlight(e)) <= 1

\* C5: resume() called while the current task is not suspended (no task yet,
\* or task completed or faulted) runs no script, sends no notification and
\* leaves the VM and the task as they were, the process alive.
C5_ResumeWithoutSuspendedTaskIsNoop ==
    [][\A e \in Executors :
          (~Suspended(e) /\ resume(e)) =>
              /\ UNCHANGED <<G, L, threads, thread, net, warns, trace>>
              /\ ~crashed']_vars

\* C6: once the current task of an executor is completed or faulted, no run or
\* resume sends a notification or leaves a task of that executor newly
\* suspended.
C6_TerminalStatesAreTerminal ==
    [][\A e \in Executors :
          (Completed(e) \/ Faulted(e)) =>
              /\ net'[e] = net[e]
              /\ \A i \in 1..Len(threads'[e]) :
                    threads'[e][i].status = LUA_YIELD =>
                        /\ i <= Len(threads[e])
                        /\ threads[e][i].status = LUA_YIELD]_vars

\* A bridge call that failed validation: no proper context, or mes without
\* arguments.
Rejected(c) == ~c.valid \/ (c.fn = "mes" /\ c.nargs = 0)

\* C7: a bridge call that fails validation sends nothing, raises nothing and
\* does not suspend: the task went on past the call within the same
\* run/resume call.
C7_ValidationFailureIsHarmless ==
    \A e \in Executors :
        \A k \in 1..Len(trace[e]) :
            LET c == trace[e][k]
                t == threads[e][c.th]
            IN Rejected(c) =>
                  /\ c.sent = 0
                  /\ c.how = "return"
                  /\ t.act = c.act =>
                        /\ t.pc > c.pc
                        /\ ~(t.status = LUA_YIELD /\ t.pc = c.pc + 1)
                        /\ ~(t.status = LUA_ERRRUN /\ t.pc = c.pc)

\* All three callables have been called without a proper context and mes has
\* been called without arguments in a proper one, and a later call of the same
\* script was delivered.
C7_Witness ==
    \E e \in Executors :
        /\ \A f \in {"mes", "next", "close"} :
              \E k \in 1..Len(trace[e]) : trace[e][k].fn = f /\ ~trace[e][k].valid
        /\ \E k \in 1..Len(trace[e]) :
              /\ trace[e][k].fn = "mes" /\ trace[e][k].valid /\ trace[e][k].nargs = 0
              /\ \E j \in (k + 1)..Len(trace[e]) :
                    /\ trace[e][j].th = trace[e][k].th
                    /\ trace[e][j].act = trace[e][k].act
                    /\ trace[e][j].sent = 1

\* C8: every bridge call that returned without acting has logged a warning.
C8_EveryRejectionWarns ==
    \A e \in Executors :
        \A k \in 1..Len(trace[e]) :
            trace[e][k].sent = 0 => trace[e][k].warned >= 1

\* The metadata owed for a table that leaves the fields in unset out.
Defaulted(unset, code) ==
    LET N(i) == IF Fields[i] \in unset THEN 0 ELSE Given[i].n
        S(i) == IF Fields[i] \in unset THEN "" ELSE Given[i].s
    IN Metadata(N(1), N(2), N(3), N(4), S(5), S(6), code)

\* C9: for a script that returns its fields with any subset of them left
\* unset, extract_metadata returns metadata in which the unset numbers are 0,
\* the unset strings are empty and the set fields carry the script's values.
C9_MetadataDefaults ==
    \A u \in SUBSET FieldSet :
        ifile = Returning(u, TRUE) =>
            /\ ires.kind = "metadata"
            /\ ires.md = Defaulted(u, lua_dump(Guard))

\* A file that loads and runs without error, returns all six fields and leaves
\* no callable script global: it does not assign script, or assigns a number.
NoScriptFiles ==
    {Returning({}, FALSE),
     File("text", <<SetGlobal("script", Num(5)), Return(<<TableOf({})>>)>>)}

\* C10: extracting a script that defines no callable script yields metadata
\* without a compiled program, whatever the interpreter extracted before.
C10_NoScriptNoProgram ==
    ifile \in NoScriptFiles =>
        /\ ires.kind = "metadata"
        /\ ires.md.code = NoCode

\* What extract_metadata returns for the file on a lua_State nothing was
\* extracted with before.
OnFreshState(file) ==
    {Extraction(file, luaL_newstate(InterpreterGlobals), ub).res : ub \in NullString}

\* C11: the result of every extract_metadata call, fields and compiled
\* program, is the one the file of that call gives on a fresh lua_State,
\* whatever was extracted before.
C11_ExtractionIsolation == ifile # NoFile => ires \in OnFreshState(ifile)

\* C12: extract_metadata returns no metadata (nullptr) for an unreadable file,
\* for a file with a syntax error and for a file whose top level raises an
\* error, whatever the error value is.
C12_FailureYieldsNullptr == ifile \in FailingFiles => ires.kind = "nullptr"

\* A file that can be read, loads without syntax error and whose top level
\* raises no error: all it does is assign globals and return.
Sound(file) ==
    /\ file.kind = "text"
    /\ \A i \in 1..Len(file.body) : file.body[i].op \in {"setglobal", "return"}

\* C13: a file that is readable, loads and runs without error is never given
\* the absent result (nullptr), whatever it assigned or returned: the absent
\* result is kept for unreadable files, syntax errors and runtime errors.
C13_SoundFileIsNeverAbsent == Sound(ifile) => ires.kind # "nullptr"

\* What run and resume hand their caller when the task was suspended or
\* completed by the call: run returns true, resume returns nothing.
NormalOutcomes == {"true", "void"}

\* C14: when the task of an executor is faulted (the program did not load, or
\* the script raised an error nothing caught), the run or resume call that
\* left it so handed its caller an outcome that differs from those of a
\* suspension or completion.
C14_FaultsAreEscalated ==
    \A e \in Executors : Faulted(e) => ret[e] \notin NormalOutcomes

\* C15: destroying an executor whose task is suspended and was never resumed
\* (the last call on it was the run that suspended the task) runs no script
\* code and sends no notification, and the lua_State, its stack and its
\* coroutines are released.
C15_DiscardOfSuspendedIsSilent ==
    [][\A e \in Executors :
          (Suspended(e) /\ ret[e] = "true" /\ destroy(e)) =>
              /\ net'[e] = net[e]
              /\ trace'[e] = trace[e]
              /\ L'[e] = <<>> /\ threads'[e] = <<>>]_vars

\* C16: mes called in a proper context with a first argument that is not a
\* string (a number, a boolean, a table, nil) logs a warning and sends
\* nothing.
C16_MesNeedsString ==
    \A e \in Executors :
        \A k \in 1..Len(trace[e]) :
            LET c == trace[e][k]
            IN (c.fn = "mes" /\ c.valid /\ c.nargs >= 1 /\ c.arg # "string") =>
                  /\ c.sent = 0
                  /\ c.warned >= 1

\* The value the last luaL_loadbuffer of executor e left on the main stack.
LastLoaded(e) ==
    LET I == {i \in 1..Len(L[e]) : L[e][i].t # "thread"}
    IN L[e][CHOOSE i \in I : \A j \in I : j <= i]

\* C17: after run was handed bytes that do not load, a task exists and is
\* current, run returned true and every later resume returned as usual; no
\* function was ever started in the task and it made no bridge call (so sent
\* nothing); the task is faulted, neither running nor suspended; and an
\* executor whose only task this is has sent nothing and has its globals as
\* constructed.
C17_MalformedProgramIsInert ==
    \A e \in Executors :
        (L[e] # <<>> /\ LastLoaded(e).t = "string") =>
            /\ thread[e] # 0 /\ thread[e] = Len(threads[e])
            /\ ret[e] = (IF Len(Current(e).stk) = 2 THEN "true" ELSE "void")
            /\ Current(e).act = 0
            /\ Current(e).status = LUA_ERRRUN
            /\ \A k \in 1..Len(trace[e]) : trace[e][k].th # thread[e]
            /\ Len(threads[e]) = 1 =>
                  /\ net[e] = <<>> /\ warns[e] = <<>>
                  /\ G[e] = executor_impl(e, sd[e], nd[e])

\* An executor with a proper context was handed bytes that do not load and has
\* then been resumed twice.
C17_Witness ==
    \E e \in Executors :
        /\ Valid(e) /\ Len(L[e]) = 2 /\ L[e][1].t = "string"
        /\ thread[e] = 1 /\ Len(Current(e).stk) = 4
        /\ ret[e] = "void" /\ net[e] = <<>>

\* Statement j of code replaces the session or npc binding with a value that
\* is not a host reference.
Unbinds(code, j) ==
    /\ j <= Len(code)
    /\ code[j].op = "setglobal"
    /\ code[j].name \in {SD_LUA_VARIABLE, ND_LUA_VARIABLE}
    /\ ~lua_islightuserdata(code[j].args[1])

\* The scripts of executor e replaced a binding in task i, before statement pc.
Unbound(e, i, pc) == \E j \in 1..(pc - 1) : Unbinds(threads[e][i].code, j)

C19_SourceTextIsNotRun ==
    \A e \in Executors :
        /\ \A i \in 1..Len(L[e]) : L[e][i] # Fn(Source)
        /\ \A k \in 1..Len(net[e]) : net[e][k].msg # "from source"

====
